---- MODULE Spec2Model ----
(***************************************************************************)
(* A model of the JSON value model, parser and serializer (src/json.h,     *)
(* src/json.cpp) and of the JSON-RPC base protocol built on them           *)
(* (src/rpc/base.h, src/rpc/rpc.cpp, and the older in-line copy in         *)
(* src/main.cpp).                                                          *)
(*                                                                         *)
(* Representation                                                          *)
(*   json::value      [kind, v]; kind is the active alternative of         *)
(*                    m_variant: "object", "array", "f64", "bool",         *)
(*                    "string" or "null"                                   *)
(*   json::object     its m_assoc_array: a sequence of [first, second]     *)
(*   std::u16string   a sequence of 16-bit code units                      *)
(*   std::string_view a sequence of chars (ASCII codes)                    *)
(*   f64              [whole, frac]: the real number whole + frac / NANO,  *)
(*                    0 <= frac < NANO                                     *)
(*   std::optional    nullopt, or [has_value |-> TRUE, value |-> x]        *)
(***************************************************************************)
EXTENDS Integers, Sequences, FiniteSets, TLC

VARIABLES
  m_assoc_array,     \* object::m_assoc_array of the object under test
  input,             \* the json::value handed to the validators and predicates
  m_source,          \* Parser::m_source
  m_index,           \* Parser::m_index
  call,              \* the last call made: its name, arguments and result
  moved_from_keeps   \* the content this build's standard library leaves in
                     \* a moved-from string or vector is unspecified: what it
                     \* held (TRUE) or nothing (FALSE)

vars == <<m_assoc_array, input, m_source, m_index, call, moved_from_keeps>>

----------------------------------------------------------------------------
(* std::optional *)

nullopt == [has_value |-> FALSE]

Some(x) == [has_value |-> TRUE, value |-> x]

----------------------------------------------------------------------------
(* f64 *)

\* frac is counted in units of 1 / NANO
NANO == 1000000000

F64(whole, frac) == [whole |-> whole, frac |-> frac]

\* std::floor
floor(x) == F64(x.whole, 0)

\* x - std::floor(x), in units of 1 / NANO
minus_floor(x) == x.frac

\* static_cast<i64>(f64): truncation toward zero
static_cast_i64(x) ==
  IF x.whole < 0 /\ x.frac > 0 THEN x.whole + 1 ELSE x.whole

\* static_cast<f64>(i64)
static_cast_f64(i) == F64(i, 0)

----------------------------------------------------------------------------
(* json::value *)

value_object(obj) == [kind |-> "object", v |-> obj]
value_array(arr)  == [kind |-> "array",  v |-> arr]
value_f64(x)      == [kind |-> "f64",    v |-> x]
value_bool(b)     == [kind |-> "bool",   v |-> b]
value_string(str) == [kind |-> "string", v |-> str]
value_null        == [kind |-> "null",   v |-> <<>>]

\* value(): m_variant{} holds its first alternative, an empty object
value_default == value_object(<<>>)

\* std::variant::valueless_by_exception: no constructor of value and no
\* assignment the program makes leaves the variant without a value
valueless_by_exception(val) == val.kind = "valueless"

is_null(val)   == valueless_by_exception(val)
is_object(val) == val.kind = "object"
is_array(val)  == val.kind = "array"
is_number(val) == val.kind = "f64"
is_bool(val)   == val.kind = "bool"
is_string(val) == val.kind = "string"

try_integer(val, tolerance) ==
  IF ~is_number(val) THEN nullopt
  ELSE IF minus_floor(val.v) <= tolerance THEN Some(static_cast_i64(val.v))
  ELSE nullopt

\* The state std::move leaves its source in. The variant keeps its
\* alternative; f64, bool and null are copied; a string or a vector is left
\* "valid but unspecified".
moved_from(val) ==
  IF val.kind \in {"string", "array", "object"} /\ ~moved_from_keeps
  THEN [val EXCEPT !.v = <<>>]
  ELSE val

----------------------------------------------------------------------------
(* json::object *)

Pair(key, val) == [first |-> key, second |-> val]

has_key(assoc, key) == \E i \in 1..Len(assoc) : assoc[i].first = key

\* object::expect, on a key that is present
expect(assoc, key) ==
  assoc[CHOOSE i \in 1..Len(assoc) :
          /\ assoc[i].first = key
          /\ \A j \in 1..(i - 1) : assoc[j].first # key].second

\* vector::erase(iterator): erases the one element at position pos
erase(assoc, pos) == SubSeq(assoc, 1, pos - 1) \o SubSeq(assoc, pos + 1, Len(assoc))

\* std::remove_if(begin, end, p.first == key): every pair that does not match
\* is move-assigned toward the front, in order; the returned iterator
\* (removed) is the position after the last pair kept. The pairs from there on
\* are what the algorithm left behind: a non-matching pair that was moved
\* forward is moved-from, a matching pair is untouched.
remove_if(assoc, key) ==
  LET n    == Len(assoc)
      kept == SelectSeq(assoc, LAMBDA p : p.first # key)
      m    == Len(kept)
      left(i) == IF assoc[i].first = key
                 THEN assoc[i]
                 ELSE Pair(IF moved_from_keeps THEN assoc[i].first ELSE <<>>,
                           moved_from(assoc[i].second))
  IN  [range   |-> kept \o [i \in 1..(n - m) |-> left(m + i)],
       removed |-> m + 1]

\* object::remove: [ret, obj], the returned optional and the array afterwards
remove(assoc, key) ==
  LET r == remove_if(assoc, key) IN
  IF r.removed = Len(assoc) + 1
  THEN [ret |-> nullopt, obj |-> r.range]
  ELSE [ret |-> Some(r.range[r.removed].second),
        obj |-> erase(r.range, r.removed)]

\* object::remove_expect, on a key that is present: [ret, obj]
remove_expect(assoc, key) ==
  LET r == remove_if(assoc, key) IN
  [ret |-> r.range[r.removed].second, obj |-> erase(r.range, r.removed)]

\* set as it would be if the last write won
set_overwriting(assoc, key, val) ==
  IF has_key(assoc, key)
  THEN [ret |-> FALSE,
        obj |-> [i \in 1..Len(assoc) |->
                   IF assoc[i].first = key THEN Pair(key, val) ELSE assoc[i]]]
  ELSE [ret |-> TRUE, obj |-> Append(assoc, Pair(key, val))]

\* set as it would be without the has_key check
set_unchecked(assoc, key, val) ==
  [ret |-> TRUE, obj |-> Append(assoc, Pair(key, val))]

\* object::set: [ret, obj]
set(assoc, key, val) ==
  IF has_key(assoc, key)
  THEN [ret |-> FALSE, obj |-> assoc]
  ELSE [ret |-> TRUE, obj |-> Append(assoc, Pair(key, val))]

----------------------------------------------------------------------------
(* Text: chars and code units are their ASCII codes *)

STR_jsonrpc == <<106, 115, 111, 110, 114, 112, 99>>   \* u"jsonrpc"
STR_id      == <<105, 100>>                           \* u"id"
STR_method  == <<109, 101, 116, 104, 111, 100>>       \* u"method"
STR_params  == <<112, 97, 114, 97, 109, 115>>         \* u"params"
STR_2_0     == <<50, 46, 48>>                         \* u"2.0"
STR_result  == <<114, 101, 115, 117, 108, 116>>       \* u"result"
STR_error   == <<101, 114, 114, 111, 114>>            \* u"error"
STR_code    == <<99, 111, 100, 101>>                  \* u"code"
STR_message == <<109, 101, 115, 115, 97, 103, 101>>   \* u"message"
STR_data    == <<100, 97, 116, 97>>                   \* u"data"

RECURSIVE digits_of(_)
\* the decimal digits of a natural number, most significant first
digits_of(n) ==
  IF n < 10 THEN <<48 + n>> ELSE Append(digits_of(n \div 10), 48 + (n % 10))

RECURSIVE strip_zeros(_)
strip_zeros(ds) ==
  IF Len(ds) > 0 /\ ds[Len(ds)] = 48
  THEN strip_zeros(SubSeq(ds, 1, Len(ds) - 1))
  ELSE ds

\* the nine digits of frac / NANO, without the trailing zeros
fraction_digits_of(frac) ==
  LET ds == digits_of(frac) IN
  strip_zeros([i \in 1..(9 - Len(ds)) |-> 48] \o ds)

\* fmt's "{}" of an f64: the shortest text that reads back as the same
\* double, in fixed notation (numbers of magnitude in [1e-4, 1e16), which is
\* every number this model formats)
format_f64(x) ==
  LET negative == x.whole < 0
      mag == IF ~negative THEN x
             ELSE IF x.frac = 0 THEN F64(-x.whole, 0)
             ELSE F64(-x.whole - 1, NANO - x.frac)
  IN  (IF negative THEN <<45>> ELSE <<>>)
      \o digits_of(mag.whole)
      \o (IF mag.frac = 0 THEN <<>> ELSE <<46>> \o fraction_digits_of(mag.frac))

----------------------------------------------------------------------------
(* rpc::base, src/rpc/rpc.cpp *)

\* in units of 1 / NANO
INT_CONVERSION_TOLERANCE == 1

\* the id of a message: std::variant<json::string, i64>
id_string(str) == [kind |-> "string", v |-> str]
id_i64(i)      == [kind |-> "i64", v |-> i]

\* Message::validate as it would be if it read "jsonrpc" and left it in place
Message_validate_peeking(val) ==
  IF ~is_object(val) THEN [ret |-> FALSE, value |-> val]
  ELSE [ret   |-> /\ has_key(val.v, STR_jsonrpc)
                  /\ is_string(expect(val.v, STR_jsonrpc))
                  /\ expect(val.v, STR_jsonrpc).v = STR_2_0,
        value |-> val]

\* Message::validate: [ret, value], the result and the input afterwards
Message_validate(val) ==
  IF ~is_object(val) THEN [ret |-> FALSE, value |-> val]
  ELSE LET jsonrpc == remove(val.v, STR_jsonrpc) IN
       [ret   |-> /\ jsonrpc.ret.has_value
                  /\ is_string(jsonrpc.ret.value)
                  /\ jsonrpc.ret.value.v = STR_2_0,
        value |-> value_object(jsonrpc.obj)]

\* identify as it would be if it looked for "method" instead of "id"
RequestMessage_identify_by_method(val) ==
  is_object(val) /\ has_key(val.v, STR_method)

\* RequestMessage::identify
RequestMessage_identify(val) == is_object(val) /\ has_key(val.v, STR_id)

\* RequestMessage::validate: [ret, value], the optional message and the input
\* afterwards
RequestMessage_validate(val) ==
  LET base   == Message_validate(val)
      id     == remove(base.value.v, STR_id)
      i      == try_integer(id.ret.value, INT_CONVERSION_TOLERANCE)
      method == remove(id.obj, STR_method)
      params == remove(method.obj, STR_params)
  IN  IF ~base.ret
        THEN [ret |-> nullopt, value |-> base.value]
      ELSE IF ~id.ret.has_value
        THEN [ret |-> nullopt, value |-> value_object(id.obj)]
      ELSE IF ~is_string(id.ret.value) /\ ~i.has_value
        THEN [ret |-> nullopt, value |-> value_object(id.obj)]
      ELSE IF ~method.ret.has_value \/ ~is_string(method.ret.value)
        THEN [ret |-> nullopt, value |-> value_object(method.obj)]
      ELSE IF /\ params.ret.has_value
              /\ ~is_array(params.ret.value)
              /\ ~is_object(params.ret.value)
        THEN [ret |-> nullopt, value |-> value_object(params.obj)]
      ELSE [ret   |-> Some([id     |-> IF is_string(id.ret.value)
                                       THEN id_string(id.ret.value.v)
                                       ELSE id_i64(i.value),
                            method |-> method.ret.value.v,
                            params |-> params.ret]),
            value |-> value_object(params.obj)]

\* validate of a notification as it would be if it took the "id" as well
NotificationMessage_validate_taking_id(val) ==
  LET base   == Message_validate(val)
      id     == remove(base.value.v, STR_id)
      method == remove(id.obj, STR_method)
      params == remove(method.obj, STR_params)
  IN  IF ~base.ret
        THEN [ret |-> nullopt, value |-> base.value]
      ELSE IF ~method.ret.has_value \/ ~is_string(method.ret.value)
        THEN [ret |-> nullopt, value |-> value_object(method.obj)]
      ELSE IF /\ params.ret.has_value
              /\ ~is_array(params.ret.value)
              /\ ~is_object(params.ret.value)
        THEN [ret |-> nullopt, value |-> value_object(params.obj)]
      ELSE [ret   |-> Some([method |-> method.ret.value.v,
                            params |-> params.ret]),
            value |-> value_object(params.obj)]

\* validate(json::value &) of rpc.cpp, which base.h declares as
\* NotificationMessage::validate: [ret, value]
NotificationMessage_validate(val) ==
  LET base   == Message_validate(val)
      method == remove(base.value.v, STR_method)
      params == remove(method.obj, STR_params)
  IN  IF ~base.ret
        THEN [ret |-> nullopt, value |-> base.value]
      ELSE IF ~method.ret.has_value \/ ~is_string(method.ret.value)
        THEN [ret |-> nullopt, value |-> value_object(method.obj)]
      ELSE IF /\ params.ret.has_value
              /\ ~is_array(params.ret.value)
              /\ ~is_object(params.ret.value)
        THEN [ret |-> nullopt, value |-> value_object(params.obj)]
      ELSE [ret   |-> Some([method |-> method.ret.value.v,
                            params |-> params.ret]),
            value |-> value_object(params.obj)]

\* CancelParams::validate: [ret, value]
CancelParams_validate(val) ==
  IF ~is_object(val) THEN [ret |-> nullopt, value |-> val]
  ELSE LET id  == remove(val.v, STR_id)
           num == try_integer(id.ret.value, INT_CONVERSION_TOLERANCE)
       IN  IF ~id.ret.has_value
             THEN [ret |-> nullopt, value |-> value_object(id.obj)]
           ELSE IF is_string(id.ret.value)
             THEN [ret   |-> Some([id |-> id_string(id.ret.value.v)]),
                   value |-> value_object(id.obj)]
           ELSE IF num.has_value
             THEN [ret   |-> Some([id |-> id_i64(num.value)]),
                   value |-> value_object(id.obj)]
           ELSE [ret |-> nullopt, value |-> value_object(id.obj)]

\* the id of a response: std::variant<json::string, i64, json::null>
id_null == [kind |-> "null", v |-> <<>>]

\* json::value(u"2.0"), the conversion of a char16_t literal to a value. The
\* argument of a converting constructor takes standard conversions only: a
\* char16_t const * does not become the std::u16string of value(std::u16string),
\* it becomes the bool of value(bool), and a pointer to a literal is true.
value_of_literal(text) == value_bool(TRUE)

\* Message::dump: the target afterwards
Message_dump(target) == set(target, STR_jsonrpc, value_of_literal(STR_2_0)).obj

ResponseError(code, message, data) ==
  [code |-> code, message |-> message, data |-> data]

\* ResponseError::dump: the target afterwards
ResponseError_dump(error, target) ==
  LET code    == set(target, STR_code, value_f64(static_cast_f64(error.code))).obj
      message == set(code, STR_message, value_string(error.message)).obj
  IN  IF error.data.has_value
      THEN set(message, STR_data, error.data.value).obj
      ELSE message

\* ResponseMessage::ok
ResponseMessage_ok(id, result) ==
  [id |-> id, result |-> Some(result), error |-> nullopt]

\* ResponseMessage::err
ResponseMessage_err(id, error) ==
  [id |-> id, result |-> nullopt, error |-> Some(error)]

\* ResponseMessage::dump: the target afterwards
ResponseMessage_dump(message, target) ==
  LET base   == Message_dump(target)
      id     == IF message.id.kind = "string" THEN value_string(message.id.v)
                ELSE IF message.id.kind = "null" THEN value_null
                ELSE value_f64(static_cast_f64(message.id.v))
      with_id == set(base, STR_id, id).obj
  IN  IF message.result.has_value
      THEN set(with_id, STR_result, message.result.value).obj
      ELSE set(with_id, STR_error,
               value_object(ResponseError_dump(message.error.value, <<>>))).obj

----------------------------------------------------------------------------
(* rpc::base as src/main.cpp defines it in line *)

\* Message::validate of main.cpp: [ret, value]
Main_Message_validate(val) ==
  IF ~is_object(val) THEN [ret |-> FALSE, value |-> val]
  ELSE LET version == remove(val.v, STR_jsonrpc) IN
       [ret   |-> ~(\/ ~version.ret.has_value
                    \/ ~is_string(version.ret.value)
                    \/ version.ret.value.v # STR_2_0),
        value |-> value_object(version.obj)]

\* RequestMessage::identify of main.cpp
Main_RequestMessage_identify(val) ==
  IF ~is_object(val) THEN FALSE
  ELSE has_key(val.v, STR_id) /\ has_key(val.v, STR_method)

\* RequestMessage::validate of main.cpp: [ret, value]. An id that is neither
\* a number nor a string leaves message.id as constructed: the empty string.
Main_RequestMessage_validate(val) ==
  LET inner  == Main_Message_validate(val)
      id     == remove(inner.value.v, STR_id)
      method == remove(id.obj, STR_method)
      params == remove(method.obj, STR_params)
  IN  IF ~inner.ret
        THEN [ret |-> nullopt, value |-> inner.value]
      ELSE IF ~id.ret.has_value
        THEN [ret |-> nullopt, value |-> value_object(id.obj)]
      ELSE IF ~method.ret.has_value \/ ~is_string(method.ret.value)
        THEN [ret |-> nullopt, value |-> value_object(method.obj)]
      ELSE IF /\ params.ret.has_value
              /\ ~is_array(params.ret.value)
              /\ ~is_object(params.ret.value)
        THEN [ret |-> nullopt, value |-> value_object(params.obj)]
      ELSE [ret   |-> Some([id     |-> IF is_number(id.ret.value)
                                         THEN id_string(format_f64(id.ret.value.v))
                                       ELSE IF is_string(id.ret.value)
                                         THEN id_string(id.ret.value.v)
                                       ELSE id_string(<<>>),
                            method |-> method.ret.value.v,
                            params |-> params.ret]),
            value |-> value_object(params.obj)]

----------------------------------------------------------------------------
(* json::Parser, src/json.cpp. A char is its ASCII code, 0..127; m_index     *)
(* counts from 0, so the char at index idx is src[idx + 1]. Every parse_      *)
(* operator returns [ret, idx]: its result and m_index afterwards.           *)

CH_TAB       == 9
CH_LF        == 10
CH_CR        == 13
CH_SPACE     == 32
CH_QUOTE     == 34
CH_PLUS      == 43
CH_COMMA     == 44
CH_MINUS     == 45
CH_DOT       == 46
CH_SLASH     == 47
CH_0         == 48
CH_9         == 57
CH_COLON     == 58
CH_LBRACKET  == 91
CH_BACKSLASH == 92
CH_RBRACKET  == 93
CH_LBRACE    == 123
CH_RBRACE    == 125

TEXT_false == <<102, 97, 108, 115, 101>>   \* "false"
TEXT_true  == <<116, 114, 117, 101>>       \* "true"
TEXT_null  == <<110, 117, 108, 108>>       \* "null"

is_eof(src, idx) == idx >= Len(src)

unchecked_char(src, idx) == src[idx + 1]

\* current_char() == c: an empty optional equals no char
current_char_is(src, idx, c) == ~is_eof(src, idx) /\ unchecked_char(src, idx) = c

\* current_char() <= c: an empty optional is less than every char
current_char_le(src, idx, c) == is_eof(src, idx) \/ unchecked_char(src, idx) <= c

is_whitespace(c) == c = CH_SPACE \/ c = CH_LF \/ c = CH_CR \/ c = CH_TAB

\* std::isdigit
isdigit(c) == CH_0 <= c /\ c <= CH_9

\* std::isxdigit
isxdigit(c) == isdigit(c) \/ (65 <= c /\ c <= 70) \/ (97 <= c /\ c <= 102)

from_hex(c) ==
  IF 65 <= c /\ 70 >= c THEN c - 65 + 10
  ELSE IF 97 <= c /\ 102 >= c THEN c - 97 + 10
  ELSE c - CH_0

\* m_source.substr(idx).starts_with(text)
starts_with(src, idx, text) ==
  /\ idx + Len(text) <= Len(src)
  /\ SubSeq(src, idx + 1, idx + Len(text)) = text

RECURSIVE skip_whitespace(_, _)
\* the index after the whitespace at idx
skip_whitespace(src, idx) ==
  IF ~is_eof(src, idx) /\ is_whitespace(unchecked_char(src, idx))
  THEN skip_whitespace(src, idx + 1)
  ELSE idx

RECURSIVE parse_digits_from(_, _, _)
parse_digits_from(src, idx, value) ==
  IF /\ ~is_eof(src, idx)
     /\ CH_0 <= unchecked_char(src, idx)
     /\ unchecked_char(src, idx) <= CH_9
  THEN parse_digits_from(src, idx + 1,
                         value * 10 + (unchecked_char(src, idx) - CH_0))
  ELSE [value |-> value, idx |-> idx]

\* Parser::parse_digits: [value, idx]
parse_digits(src, idx) == parse_digits_from(src, idx, 0)

\* the fraction_div that "while (--fraction_digits) fraction_div *= 10" leaves
fraction_div_of(fraction_digits) == 10 ^ (fraction_digits - 1)

\* static_cast<f64>(integral) + static_cast<f64>(fraction) / fraction_div
mantissa_of(integral, fraction, fraction_div) ==
  F64(integral + (fraction \div fraction_div),
      (fraction % fraction_div) * (NANO \div fraction_div))

RECURSIVE integer_power(_, _)
\* base to the power exponent, counted up to NANO; a larger power is NANO + 1
integer_power(base, exponent) ==
  IF exponent = 0 THEN 1
  ELSE LET p == integer_power(base, exponent - 1) IN
       IF base = 0 THEN 0
       ELSE IF p > NANO \div base THEN NANO + 1
       ELSE p * base

\* std::pow(mantissa, exponent) of a mantissa that is not negative. The power
\* is an f64 of this representation where the representation holds it
\* exactly: any mantissa to the power 0 or 1, an integral mantissa to a
\* natural power up to NANO, and the inverse of such a power that divides
\* NANO. Any other power is kept as the pair it is the power of.
pow(mantissa, exponent) ==
  LET p == integer_power(mantissa.whole,
                         IF exponent < 0 THEN -exponent ELSE exponent)
  IN  IF exponent = 0 THEN F64(1, 0)
      ELSE IF exponent = 1 THEN mantissa
      ELSE IF mantissa.frac = 0 /\ exponent > 1 /\ p <= NANO THEN F64(p, 0)
      ELSE IF mantissa.frac = 0 /\ exponent < 0 /\ p = 1 THEN F64(1, 0)
      ELSE IF /\ mantissa.frac = 0 /\ exponent < 0
              /\ p > 1 /\ p <= NANO /\ NANO % p = 0
        THEN F64(0, NANO \div p)
      ELSE [pow_of |-> mantissa, to |-> exponent, negative |-> FALSE]

\* x * -1
negated(x) ==
  IF "pow_of" \in DOMAIN x THEN [x EXCEPT !.negative = ~@]
  ELSE IF x.frac = 0 THEN F64(-x.whole, 0)
  ELSE F64(-x.whole - 1, NANO - x.frac)

\* Parser::parse_number: [ret, idx]
parse_number(src, idx) ==
  LET is_negative == current_char_is(src, idx, CH_MINUS)
      i1 == IF is_negative THEN idx + 1 ELSE idx
      zero == current_char_is(src, i1, CH_0)
      int_ok == zero \/ current_char_le(src, i1, CH_9)
      int_digits == parse_digits(src, i1)
      integral == IF zero THEN 0 ELSE int_digits.value
      i2 == IF zero THEN i1 + 1 ELSE int_digits.idx
      has_fraction == current_char_is(src, i2, CH_DOT)
      i3 == IF has_fraction THEN i2 + 1 ELSE i2
      fraction_ok ==
        ~has_fraction
        \/ ~(\/ is_eof(src, i3)
             \/ unchecked_char(src, i3) < CH_0
             \/ CH_9 < unchecked_char(src, i3))
      fraction_part == parse_digits(src, i3)
      fraction == IF has_fraction THEN fraction_part.value ELSE 0
      fraction_digits == IF has_fraction THEN fraction_part.idx - i3 ELSE 1
      i4 == IF has_fraction THEN fraction_part.idx ELSE i3
      has_exponent ==
        current_char_is(src, i4, 101) \/ current_char_is(src, i4, 69)
      i5 == IF has_exponent THEN i4 + 1 ELSE i4
      i6 == IF has_exponent
               /\ (\/ current_char_is(src, i5, CH_MINUS)
                   \/ current_char_is(src, i5, CH_PLUS))
            THEN i5 + 1 ELSE i5
      exponent_ok ==
        ~has_exponent
        \/ ~(\/ is_eof(src, i6)
             \/ unchecked_char(src, i6) < CH_0
             \/ CH_9 < unchecked_char(src, i6))
      exponent_part == parse_digits(src, i6)
      \* "exponent *= -1" is overwritten by "exponent = parse_digits()"
      exponent == IF has_exponent THEN exponent_part.value ELSE 1
      i7 == IF has_exponent THEN exponent_part.idx ELSE i6
      final == pow(mantissa_of(integral, fraction,
                               fraction_div_of(fraction_digits)),
                   exponent)
  IN  IF ~int_ok THEN [ret |-> nullopt, idx |-> i1]
      ELSE IF ~fraction_ok THEN [ret |-> nullopt, idx |-> i3]
      ELSE IF ~exponent_ok THEN [ret |-> nullopt, idx |-> i6]
      ELSE [ret |-> Some(IF is_negative THEN negated(final) ELSE final),
            idx |-> i7]

RECURSIVE parse_hex_digits(_, _, _, _)
\* the n hex digits parse_four_hex still has to read, value the u16 so far
parse_hex_digits(src, idx, n, value) ==
  IF n = 0 THEN [ret |-> Some(value), idx |-> idx]
  ELSE IF is_eof(src, idx) \/ ~isxdigit(unchecked_char(src, idx))
    THEN [ret |-> nullopt, idx |-> idx]
  ELSE parse_hex_digits(src, idx + 1, n - 1,
                        ((value * 16) % 65536) + from_hex(unchecked_char(src, idx)))

\* Parser::parse_four_hex: [ret, idx]
parse_four_hex(src, idx) == parse_hex_digits(src, idx, 4, 0)

\* Parser::parse_escape: [ret, idx]
parse_escape(src, idx) ==
  IF is_eof(src, idx) THEN [ret |-> nullopt, idx |-> idx]
  ELSE LET c == unchecked_char(src, idx) IN
       CASE c = CH_QUOTE     -> [ret |-> Some(CH_QUOTE), idx |-> idx + 1]
         [] c = CH_BACKSLASH -> [ret |-> Some(CH_BACKSLASH), idx |-> idx + 1]
         [] c = CH_SLASH     -> [ret |-> Some(CH_SLASH), idx |-> idx + 1]
         [] c = 98           -> [ret |-> Some(8), idx |-> idx + 1]
         [] c = 102          -> [ret |-> Some(12), idx |-> idx + 1]
         [] c = 110          -> [ret |-> Some(CH_LF), idx |-> idx + 1]
         [] c = 114          -> [ret |-> Some(CH_CR), idx |-> idx + 1]
         [] c = 116          -> [ret |-> Some(CH_TAB), idx |-> idx + 1]
         [] c = 117          -> parse_four_hex(src, idx + 1)
         [] OTHER            -> [ret |-> nullopt, idx |-> idx]

RECURSIVE parse_string_from(_, _, _)
\* the loop of parse_string, value the code units pushed so far
parse_string_from(src, idx, value) ==
  IF ~is_eof(src, idx) /\ unchecked_char(src, idx) # CH_QUOTE
  THEN IF unchecked_char(src, idx) = CH_BACKSLASH
       THEN LET escaped == parse_escape(src, idx + 1) IN
            IF ~escaped.ret.has_value
            THEN [ret |-> nullopt, idx |-> escaped.idx]
            ELSE parse_string_from(src, escaped.idx,
                                   Append(value, escaped.ret.value))
       ELSE parse_string_from(src, idx + 1,
                              Append(value, unchecked_char(src, idx)))
  ELSE IF is_eof(src, idx) \/ unchecked_char(src, idx) # CH_QUOTE
       THEN [ret |-> nullopt, idx |-> idx]
       ELSE [ret |-> Some(value), idx |-> idx + 1]

\* Parser::parse_string: [ret, idx]
parse_string(src, idx) == parse_string_from(src, idx, <<>>)

RECURSIVE parse_value(_, _)
RECURSIVE parse_array_from(_, _, _)
RECURSIVE parse_object_from(_, _, _)

\* the end of parse_array as it would be if the char behind the loop were
\* accepted without a look at it
parse_array_close_unchecked(src, idx, values) ==
  [ret |-> Some(values), idx |-> idx + 1]

\* what parse_array does once its loop is left
parse_array_close(src, idx, values) ==
  IF ~current_char_is(src, idx, CH_RBRACKET)
  THEN [ret |-> nullopt, idx |-> idx]
  ELSE [ret |-> Some(values), idx |-> idx + 1]

RECURSIVE parse_array_strict(_, _, _)
\* the loop of parse_array as it would be if the closing bracket were looked
\* for before the first element only: after a separator an element must follow
parse_array_strict(src, idx, values) ==
  IF values # <<>> \/ (~is_eof(src, idx) /\ unchecked_char(src, idx) # CH_RBRACKET)
  THEN LET value == parse_value(src, idx) IN
       IF ~value.ret.has_value
       THEN [ret |-> nullopt, idx |-> value.idx]
       ELSE IF ~current_char_is(src, value.idx, CH_COMMA)
       THEN parse_array_close(src, value.idx, Append(values, value.ret.value))
       ELSE parse_array_strict(src, skip_whitespace(src, value.idx + 1),
                               Append(values, value.ret.value))
  ELSE parse_array_close(src, idx, values)

\* the loop of parse_array, at its condition
parse_array_from(src, idx, values) ==
  IF ~is_eof(src, idx) /\ unchecked_char(src, idx) # CH_RBRACKET
  THEN LET value == parse_value(src, idx) IN
       IF ~value.ret.has_value
       THEN [ret |-> nullopt, idx |-> value.idx]
       ELSE IF ~current_char_is(src, value.idx, CH_COMMA)
       THEN parse_array_close(src, value.idx, Append(values, value.ret.value))
       ELSE parse_array_from(src, skip_whitespace(src, value.idx + 1),
                             Append(values, value.ret.value))
  ELSE parse_array_close(src, idx, values)

\* Parser::parse_array: [ret, idx]
parse_array(src, idx) == parse_array_from(src, skip_whitespace(src, idx), <<>>)

\* what parse_object does once its loop is left
parse_object_close(src, idx, kvpairs) ==
  LET i == skip_whitespace(src, idx) IN
  IF ~current_char_is(src, i, CH_RBRACE)
  THEN [ret |-> nullopt, idx |-> i]
  ELSE [ret |-> Some(kvpairs), idx |-> i + 1]

\* the loop of parse_object, at its condition
parse_object_from(src, idx, kvpairs) ==
  IF ~is_eof(src, idx) /\ unchecked_char(src, idx) # CH_RBRACE
  THEN IF unchecked_char(src, idx) # CH_QUOTE
       THEN [ret |-> nullopt, idx |-> idx]
       ELSE
       LET key   == parse_string(src, idx + 1)
           colon == skip_whitespace(src, key.idx)
           value == parse_value(src, colon + 1)
           added == set(kvpairs, key.ret.value, value.ret.value)
       IN  IF ~key.ret.has_value
             THEN [ret |-> nullopt, idx |-> key.idx]
           ELSE IF ~current_char_is(src, colon, CH_COLON)
             THEN [ret |-> nullopt, idx |-> colon]
           ELSE IF ~value.ret.has_value
             THEN [ret |-> nullopt, idx |-> value.idx]
           ELSE IF ~added.ret
             THEN [ret |-> nullopt, idx |-> value.idx]
           ELSE IF ~current_char_is(src, value.idx, CH_COMMA)
             THEN parse_object_close(src, value.idx, added.obj)
           ELSE parse_object_from(src, skip_whitespace(src, value.idx + 1),
                                  added.obj)
  ELSE parse_object_close(src, idx, kvpairs)

\* Parser::parse_object: [ret, idx]
parse_object(src, idx) == parse_object_from(src, skip_whitespace(src, idx), <<>>)

\* Parser::parse_value: [ret, idx]
parse_value(src, idx) ==
  LET i == skip_whitespace(src, idx)
      then_whitespace(r) == [ret |-> r.ret, idx |-> skip_whitespace(src, r.idx)]
      \* final = <the optional a parse_ operator returned>, as an optional value
      as_value(parsed, make(_)) ==
        [ret |-> IF parsed.ret.has_value
                 THEN Some(make(parsed.ret.value)) ELSE nullopt,
         idx |-> parsed.idx]
  IN  IF is_eof(src, i) THEN [ret |-> nullopt, idx |-> i]
      ELSE IF starts_with(src, i, TEXT_false)
        THEN then_whitespace([ret |-> Some(value_bool(FALSE)),
                              idx |-> i + Len(TEXT_false)])
      ELSE IF starts_with(src, i, TEXT_true)
        THEN then_whitespace([ret |-> Some(value_bool(TRUE)),
                              idx |-> i + Len(TEXT_true)])
      ELSE IF starts_with(src, i, TEXT_null)
        THEN then_whitespace([ret |-> Some(value_null),
                              idx |-> i + Len(TEXT_null)])
      ELSE IF unchecked_char(src, i) = CH_MINUS \/ isdigit(unchecked_char(src, i))
        THEN then_whitespace(as_value(parse_number(src, i), value_f64))
      ELSE IF unchecked_char(src, i) = CH_LBRACE
        THEN then_whitespace(as_value(parse_object(src, i + 1), value_object))
      ELSE IF unchecked_char(src, i) = CH_LBRACKET
        THEN then_whitespace(as_value(parse_array(src, i + 1), value_array))
      ELSE IF unchecked_char(src, i) = CH_QUOTE
        THEN then_whitespace(as_value(parse_string(src, i + 1), value_string))
      ELSE [ret |-> nullopt, idx |-> i]

\* json::parse_single: [ret, idx], idx the m_index the Parser ends with
parse_single(source) == parse_value(source, 0)

----------------------------------------------------------------------------
(* The serializer, src/json.h: fmt::formatter of debug_u16_string and of     *)
(* json::value. A format operator returns [thrown, out]: whether the call    *)
(* ended in an exception, and the text written.                              *)

\* std::iswprint in the "C" locale, the locale of a program that never calls
\* setlocale
iswprint(c) == 32 <= c /\ c <= 126

\* x >> n
shift_right(x, n) == x \div (2 ^ n)

\* x & 0xf
and_0xf(x) == x % 16

\* the text one code unit of a string is written as
format_code_unit(value) ==
  CASE value = CH_QUOTE     -> <<CH_BACKSLASH, CH_QUOTE>>
    [] value = CH_BACKSLASH -> <<CH_BACKSLASH, CH_BACKSLASH>>
    [] value = CH_SLASH     -> <<CH_BACKSLASH, CH_SLASH>>
    [] value = 8            -> <<CH_BACKSLASH, 98>>
    [] value = 12           -> <<CH_BACKSLASH, 102>>
    [] value = CH_LF        -> <<CH_BACKSLASH, 110>>
    [] value = CH_CR        -> <<CH_BACKSLASH, 114>>
    [] value = CH_TAB       -> <<CH_BACKSLASH, 116>>
    [] OTHER ->
         IF iswprint(value) THEN <<value % 256>>
         ELSE LET nibbles == value IN
              <<CH_BACKSLASH, 117>>
              \o digits_of(shift_right(nibbles, 24))
              \o digits_of(and_0xf(shift_right(nibbles, 16)))
              \o digits_of(and_0xf(shift_right(nibbles, 8)))
              \o digits_of(and_0xf(nibbles))

RECURSIVE format_code_units(_)
format_code_units(str) ==
  IF str = <<>> THEN <<>>
  ELSE format_code_unit(Head(str)) \o format_code_units(Tail(str))

\* fmt::formatter<debug_u16_string>::format
format_debug_u16_string(str) ==
  <<CH_QUOTE>> \o format_code_units(str) \o <<CH_QUOTE>>

RECURSIVE format_value(_)
RECURSIVE format_array_from(_, _, _)
RECURSIVE format_assocs_from(_, _, _)

\* the elements arr[i..] of an array, each after the first behind a comma
format_array_from(arr, i, out) ==
  IF i > Len(arr) THEN [thrown |-> FALSE, out |-> out]
  ELSE LET element == format_value(arr[i]) IN
       IF element.thrown THEN [thrown |-> TRUE, out |-> out]
       ELSE format_array_from(arr, i + 1,
              out \o (IF i = 1 THEN <<>> ELSE <<CH_COMMA>>) \o element.out)

\* the pairs assocs[i..] of an object, each after the first behind a comma
format_assocs_from(assocs, i, out) ==
  IF i > Len(assocs) THEN [thrown |-> FALSE, out |-> out]
  ELSE LET second == format_value(assocs[i].second) IN
       IF second.thrown THEN [thrown |-> TRUE, out |-> out]
       ELSE format_assocs_from(assocs, i + 1,
              out \o (IF i = 1 THEN <<>> ELSE <<CH_COMMA>>)
                  \o format_debug_u16_string(assocs[i].first)
                  \o <<CH_COLON>> \o second.out)

\* fmt::formatter<json::value>::format. The last line is v.as_bool():
\* std::get<bool> throws std::bad_variant_access unless the value is a bool.
format_value(val) ==
  IF is_null(val) THEN [thrown |-> FALSE, out |-> TEXT_null]
  ELSE IF is_array(val) THEN
    LET elements == format_array_from(val.v, 1, <<CH_LBRACKET>>) IN
    IF elements.thrown THEN elements
    ELSE [thrown |-> FALSE, out |-> elements.out \o <<CH_RBRACKET>>]
  ELSE IF is_object(val) THEN
    LET assocs == format_assocs_from(val.v, 1, <<CH_LBRACE>>) IN
    IF assocs.thrown THEN assocs
    ELSE [thrown |-> FALSE, out |-> assocs.out \o <<CH_RBRACE>>]
  ELSE IF is_string(val) THEN
    [thrown |-> FALSE, out |-> format_debug_u16_string(val.v)]
  ELSE IF is_number(val) THEN [thrown |-> FALSE, out |-> format_f64(val.v)]
  ELSE IF is_bool(val) THEN
    [thrown |-> FALSE, out |-> IF val.v THEN TEXT_true ELSE TEXT_false]
  ELSE [thrown |-> TRUE, out |-> <<>>]

----------------------------------------------------------------------------
(* The object under test: set, remove and remove_expect on one json::object *)

NumKeys == 3

Keys == {<<96 + i>> : i \in 1..NumKeys}

ObjectValues ==
  {value_f64(F64(1, 0)), value_f64(F64(2, 0)), value_string(<<115>>)}

NoCall == [op |-> "none"]

Init ==
  /\ m_assoc_array = <<>>
  /\ input = value_default
  /\ m_source = <<>>
  /\ m_index = 0
  /\ call = NoCall
  /\ moved_from_keeps \in BOOLEAN

Set ==
  \E key \in Keys, val \in ObjectValues :
    LET r == set(m_assoc_array, key, val) IN
    /\ m_assoc_array' = r.obj
    /\ call' = [op |-> "set", key |-> key, val |-> val,
                before |-> m_assoc_array, ret |-> r.ret]
    /\ UNCHANGED <<input, m_source, m_index, moved_from_keeps>>

Remove ==
  \E key \in Keys :
    LET r == remove(m_assoc_array, key) IN
    /\ m_assoc_array' = r.obj
    /\ call' = [op |-> "remove", key |-> key,
                before |-> m_assoc_array, ret |-> r.ret]
    /\ UNCHANGED <<input, m_source, m_index, moved_from_keeps>>

\* remove_expect is called on present keys only: on an absent key it
\* dereferences and erases the end iterator
RemoveExpect ==
  \E key \in Keys :
    /\ has_key(m_assoc_array, key)
    /\ LET r == remove_expect(m_assoc_array, key) IN
       /\ m_assoc_array' = r.obj
       /\ call' = [op |-> "remove_expect", key |-> key,
                   before |-> m_assoc_array, ret |-> Some(r.ret)]
    /\ UNCHANGED <<input, m_source, m_index, moved_from_keeps>>

Next == Set \/ Remove \/ RemoveExpect

Spec == Init /\ [][Next]_vars

----------------------------------------------------------------------------
(* The validators and identify, called on one json::value any number of     *)
(* times                                                                     *)

MaxPairs == 4

STR_x == <<120>>   \* a key no validator recognises

FieldValues(key) ==
  CASE key = STR_jsonrpc -> {value_string(STR_2_0), value_string(<<49, 46, 48>>)}
    [] key = STR_id      -> {value_string(<<97, 98, 99>>), value_f64(F64(1, 0)),
                             value_f64(F64(1, NANO \div 2)), value_bool(TRUE)}
    [] key = STR_method  -> {value_string(<<109>>), value_f64(F64(7, 0))}
    [] key = STR_params  -> {value_array(<<>>), value_object(<<>>),
                             value_f64(F64(3, 0))}
    [] key = STR_x       -> {value_f64(F64(5, 0)), value_string(<<115>>)}

FieldKeys == {STR_jsonrpc, STR_id, STR_method, STR_params, STR_x}

RECURSIVE AssocArrays(_)
\* every m_assoc_array of n pairs with distinct keys, in every order
AssocArrays(n) ==
  IF n = 0 THEN {<<>>}
  ELSE UNION {
         UNION { {Append(a, Pair(key, val)) : val \in FieldValues(key)} :
                 key \in {k \in FieldKeys : ~has_key(a, k)} } :
         a \in AssocArrays(n - 1) }

ValidateInputs ==
  {value_object(a) : a \in UNION {AssocArrays(n) : n \in 0..MaxPairs}}
  \cup {value_null, value_f64(F64(1, 0)), value_string(STR_2_0),
        value_array(<<>>), value_bool(TRUE)}

InitValidate ==
  /\ input \in ValidateInputs
  /\ m_assoc_array = <<>>
  /\ m_source = <<>>
  /\ m_index = 0
  /\ call = NoCall
  /\ moved_from_keeps \in BOOLEAN

RequestValidate ==
  LET r == RequestMessage_validate(input) IN
  /\ input' = r.value
  /\ call' = [op |-> "RequestMessage::validate", input |-> input, ret |-> r.ret]
  /\ UNCHANGED <<m_assoc_array, m_source, m_index, moved_from_keeps>>

RequestIdentify ==
  /\ call' = [op |-> "RequestMessage::identify", input |-> input,
              ret |-> RequestMessage_identify(input)]
  /\ UNCHANGED <<input, m_assoc_array, m_source, m_index, moved_from_keeps>>

MainRequestValidate ==
  LET r == Main_RequestMessage_validate(input) IN
  /\ input' = r.value
  /\ call' = [op |-> "main RequestMessage::validate", input |-> input,
              ret |-> r.ret]
  /\ UNCHANGED <<m_assoc_array, m_source, m_index, moved_from_keeps>>

MainRequestIdentify ==
  /\ call' = [op |-> "main RequestMessage::identify", input |-> input,
              ret |-> Main_RequestMessage_identify(input)]
  /\ UNCHANGED <<input, m_assoc_array, m_source, m_index, moved_from_keeps>>

NextValidate ==
  \/ RequestValidate
  \/ RequestIdentify
  \/ MainRequestValidate
  \/ MainRequestIdentify

SpecValidate == InitValidate /\ [][NextValidate]_vars

----------------------------------------------------------------------------
(* Values: construction from the six kinds, and try_integer                 *)

MaxWhole == 2

\* fractional parts, in units of 1 / NANO: none of them at a tolerance, where
\* the rounding of the subtraction would decide
Fractions == {0, 2, 6, NANO \div 2, NANO - 1}

Tolerances == {0, INT_CONVERSION_TOLERANCE, 4}

Numbers == {F64(w, f) : w \in (-MaxWhole)..MaxWhole, f \in Fractions}

Constructed ==
  [from : {"f64"}, val : {value_f64(x) : x \in Numbers}]
  \cup [from : {"bool"}, val : {value_bool(b) : b \in BOOLEAN}]
  \cup [from : {"string"}, val : {value_string(str) : str \in {<<>>, <<97>>}}]
  \cup [from : {"array"},
        val : {value_array(arr) : arr \in {<<>>, <<value_null>>}}]
  \cup [from : {"object"},
        val : {value_object(obj) :
                 obj \in {<<>>, <<Pair(<<97>>, value_bool(TRUE))>>}}]
  \cup [from : {"null"}, val : {value_null}]

InitValue ==
  /\ input = value_default
  /\ call = NoCall
  /\ m_assoc_array = <<>>
  /\ m_source = <<>>
  /\ m_index = 0
  /\ moved_from_keeps \in BOOLEAN

Construct ==
  \E c \in Constructed :
    /\ input' = c.val
    /\ call' = [op |-> "value", from |-> c.from]
    /\ UNCHANGED <<m_assoc_array, m_source, m_index, moved_from_keeps>>

\* value()
DefaultConstruct ==
  /\ input' = value_default
  /\ call' = [op |-> "value", from |-> "default"]
  /\ UNCHANGED <<m_assoc_array, m_source, m_index, moved_from_keeps>>

TryInteger ==
  \E tolerance \in Tolerances :
    /\ call.op # "none"
    /\ call' = [op |-> "try_integer", from |-> call.from,
                tolerance |-> tolerance, ret |-> try_integer(input, tolerance)]
    /\ UNCHANGED <<input, m_assoc_array, m_source, m_index, moved_from_keeps>>

\* texts whose first character says which kind of value they are
Literals ==
  {[from |-> "null",   text |-> TEXT_null],
   [from |-> "bool",   text |-> TEXT_true],
   [from |-> "bool",   text |-> TEXT_false],
   [from |-> "f64",    text |-> <<49>>],
   [from |-> "string", text |-> <<CH_QUOTE, 97, CH_QUOTE>>],
   [from |-> "array",  text |-> <<CH_LBRACKET, CH_RBRACKET>>],
   [from |-> "object", text |-> <<CH_LBRACE, CH_RBRACE>>]}

\* the value parse_single makes of a literal
ParseLiteral ==
  \E l \in Literals :
    LET r == parse_single(l.text) IN
    /\ r.ret.has_value
    /\ input' = r.ret.value
    /\ call' = [op |-> "parse_single", from |-> l.from]
    /\ UNCHANGED <<m_assoc_array, m_source, m_index, moved_from_keeps>>

NextValue == Construct \/ DefaultConstruct \/ TryInteger \/ ParseLiteral

SpecValue == InitValue /\ [][NextValue]_vars

----------------------------------------------------------------------------
(* parse_single on one source text                                          *)

MaxTokens == 5

RECURSIVE Concat(_)
Concat(texts) == IF texts = <<>> THEN <<>> ELSE Head(texts) \o Concat(Tail(texts))

\* every text of at most MaxTokens of the tokens
TextsOf(tokens) ==
  UNION { {Concat(ts) : ts \in [1..n -> tokens]} : n \in 0..MaxTokens }

ArrayTokens ==
  {<<CH_LBRACKET>>, <<CH_RBRACKET>>, <<CH_COMMA>>, <<49>>, <<CH_SPACE>>}

\* "a":1 is one token
ObjectTokens ==
  {<<CH_LBRACE>>, <<CH_RBRACE>>, <<CH_COMMA>>, <<CH_SPACE>>,
   <<CH_QUOTE, 97, CH_QUOTE, CH_COLON, 49>>}

TEXT_1_2_trailing == <<CH_LBRACKET, 49, CH_COMMA, 50, CH_COMMA, CH_RBRACKET>>  \* [1,2,]
TEXT_1_2_doubled  == <<CH_LBRACKET, 49, CH_COMMA, CH_COMMA, 50, CH_RBRACKET>>  \* [1,,2]
TEXT_lone_comma   == <<CH_LBRACKET, CH_COMMA, CH_RBRACKET>>                    \* [,]
TEXT_a_1_trailing ==                                                           \* {"a":1,}
  <<CH_LBRACE, CH_QUOTE, 97, CH_QUOTE, CH_COLON, 49, CH_COMMA, CH_RBRACE>>
TEXT_a_b_trailing ==                                                     \* {"a":1,"b":2,}
  <<CH_LBRACE, CH_QUOTE, 97, CH_QUOTE, CH_COLON, 49, CH_COMMA,
    CH_QUOTE, 98, CH_QUOTE, CH_COLON, 50, CH_COMMA, CH_RBRACE>>
TEXT_nested_trailing ==                                                  \* [[1,],[],]
  <<CH_LBRACKET, CH_LBRACKET, 49, CH_COMMA, CH_RBRACKET, CH_COMMA,
    CH_LBRACKET, CH_RBRACKET, CH_COMMA, CH_RBRACKET>>

ParseInputs ==
  TextsOf(ArrayTokens) \cup TextsOf(ObjectTokens)
  \cup {TEXT_1_2_trailing, TEXT_1_2_doubled, TEXT_lone_comma, TEXT_a_1_trailing,
        TEXT_a_b_trailing, TEXT_nested_trailing, TEXT_null, TEXT_true, TEXT_false}

InitParse ==
  /\ m_source \in ParseInputs
  /\ m_index = 0
  /\ call = NoCall
  /\ input = value_default
  /\ m_assoc_array = <<>>
  /\ moved_from_keeps = FALSE

ParseSingle ==
  LET r == parse_single(m_source) IN
  /\ m_index' = r.idx
  /\ call' = [op |-> "parse_single", ret |-> r.ret]
  /\ UNCHANGED <<m_source, input, m_assoc_array, moved_from_keeps>>

NextParse == ParseSingle

SpecParse == InitParse /\ [][NextParse]_vars

----------------------------------------------------------------------------
(* A value is serialized, and the text is parsed again                      *)

MaxStrLen == 2

MaxElements == 2

\* a letter, a quote, a line feed, two control characters and 0xFFFF
CodeUnits == {97, CH_QUOTE, CH_LF, 1, 31, 65535}

Strings == UNION {[1..n -> CodeUnits] : n \in 0..MaxStrLen}

\* integral numbers
Integrals == {F64(0, 0), F64(1, 0), F64(-1, 0), F64(12, 0)}

Scalars ==
  {value_null, value_bool(TRUE), value_bool(FALSE)}
  \cup {value_f64(x) : x \in Integrals}
  \cup {value_string(str) : str \in Strings}

Elements ==
  {value_null, value_bool(TRUE), value_f64(F64(1, 0)), value_string(<<97>>),
   value_array(<<>>), value_object(<<>>)}

Arrays == UNION {[1..n -> Elements] : n \in 0..MaxElements}

RECURSIVE ObjectsOf(_)
\* every m_assoc_array of n pairs with distinct keys among "a", "b", "c"
ObjectsOf(n) ==
  IF n = 0 THEN {<<>>}
  ELSE UNION {
         {Append(a, Pair(key, val)) :
            key \in {k \in {<<97>>, <<98>>, <<99>>} : ~has_key(a, k)},
            val \in Elements} :
         a \in ObjectsOf(n - 1) }

FormatValues ==
  Scalars
  \cup {value_array(arr) : arr \in Arrays}
  \cup {value_object(a) : a \in UNION {ObjectsOf(n) : n \in 0..MaxElements}}

InitFormat ==
  /\ input \in FormatValues
  /\ m_source = <<>>
  /\ m_index = 0
  /\ call = NoCall
  /\ m_assoc_array = <<>>
  /\ moved_from_keeps = FALSE

Format ==
  /\ call.op = "none"
  /\ LET r == format_value(input) IN
     /\ m_source' = r.out
     /\ call' = [op |-> "format", thrown |-> r.thrown]
  /\ UNCHANGED <<input, m_index, m_assoc_array, moved_from_keeps>>

ParseFormatted ==
  /\ call.op = "format"
  /\ ~call.thrown
  /\ ParseSingle

NextFormat == Format \/ ParseFormatted

SpecFormat == InitFormat /\ [][NextFormat]_vars

----------------------------------------------------------------------------
(* Responses: a message is built by ok or err and dumped into the target    *)
(* object m_assoc_array                                                      *)

MaxId == 2

ResponseIds ==
  {id_null, id_string(<<97>>), id_string(<<97, 98, 99>>)}
  \cup {id_i64(i) : i \in 0..MaxId}

ResponseResults ==
  {value_null, value_bool(FALSE), value_f64(F64(1, 0)), value_string(<<115>>),
   value_array(<<>>), value_object(<<>>)}

\* ErrorCode::ParseError, ErrorCode::InvalidRequest, ErrorCode::RequestFailed
ErrorCodes == {0 - 32700, 0 - 32600, 0 - 32803}

ResponseErrors ==
  {ResponseError(code, message, data) :
     code \in ErrorCodes,
     message \in {<<>>, <<109>>},
     data \in {nullopt, Some(value_null), Some(value_f64(F64(1, 0)))}}

InitResponse ==
  /\ m_assoc_array = <<>>
  /\ input = value_default
  /\ m_source = <<>>
  /\ m_index = 0
  /\ call = NoCall
  /\ moved_from_keeps \in BOOLEAN

Ok ==
  \E id \in ResponseIds, result \in ResponseResults :
    /\ call' = [op |-> "ResponseMessage::ok",
                message |-> ResponseMessage_ok(id, result)]
    /\ UNCHANGED <<m_assoc_array, input, m_source, m_index, moved_from_keeps>>

Err ==
  \E id \in ResponseIds, error \in ResponseErrors :
    /\ call' = [op |-> "ResponseMessage::err",
                message |-> ResponseMessage_err(id, error)]
    /\ UNCHANGED <<m_assoc_array, input, m_source, m_index, moved_from_keeps>>

\* a message that ok or err built is dumped into a new, empty target
Dump ==
  /\ call.op \in {"ResponseMessage::ok", "ResponseMessage::err"}
  /\ m_assoc_array' = ResponseMessage_dump(call.message, <<>>)
  /\ call' = [op |-> "ResponseMessage::dump", message |-> call.message]
  /\ UNCHANGED <<input, m_source, m_index, moved_from_keeps>>

NextResponse == Ok \/ Err \/ Dump

SpecResponse == InitResponse /\ [][NextResponse]_vars

----------------------------------------------------------------------------
(* Consumption: the validators of rpc.cpp are called one after another on   *)
(* one json::value; each call records the calls made before it              *)

MaxFields == 3

MaxCalls == 2

ConsumeInputs ==
  {value_object(a) : a \in UNION {AssocArrays(n) : n \in 0..MaxFields}}
  \cup {value_null, value_array(<<>>)}

InitConsume ==
  /\ input \in ConsumeInputs
  /\ m_assoc_array = <<>>
  /\ m_source = <<>>
  /\ m_index = 0
  /\ call = NoCall
  /\ moved_from_keeps \in BOOLEAN

\* the calls made so far, each with whether it succeeded
Earlier ==
  IF call.op = "none" THEN <<>>
  ELSE Append(call.earlier, [op |-> call.op, ok |-> call.ok])

ValidateMessage ==
  /\ Len(Earlier) < MaxCalls
  /\ LET r == Message_validate(input) IN
     /\ input' = r.value
     /\ call' = [op |-> "Message::validate", input |-> input, ret |-> r.ret,
                 ok |-> r.ret, earlier |-> Earlier]
  /\ UNCHANGED <<m_assoc_array, m_source, m_index, moved_from_keeps>>

ValidateRequest ==
  /\ Len(Earlier) < MaxCalls
  /\ LET r == RequestMessage_validate(input) IN
     /\ input' = r.value
     /\ call' = [op |-> "RequestMessage::validate", input |-> input,
                 ret |-> r.ret, ok |-> r.ret.has_value, earlier |-> Earlier]
  /\ UNCHANGED <<m_assoc_array, m_source, m_index, moved_from_keeps>>

ValidateNotification ==
  /\ Len(Earlier) < MaxCalls
  /\ LET r == NotificationMessage_validate(input) IN
     /\ input' = r.value
     /\ call' = [op |-> "NotificationMessage::validate", input |-> input,
                 ret |-> r.ret, ok |-> r.ret.has_value, earlier |-> Earlier]
  /\ UNCHANGED <<m_assoc_array, m_source, m_index, moved_from_keeps>>

ValidateCancelParams ==
  /\ Len(Earlier) < MaxCalls
  /\ LET r == CancelParams_validate(input) IN
     /\ input' = r.value
     /\ call' = [op |-> "CancelParams::validate", input |-> input,
                 ret |-> r.ret, ok |-> r.ret.has_value, earlier |-> Earlier]
  /\ UNCHANGED <<m_assoc_array, m_source, m_index, moved_from_keeps>>

NextConsume ==
  \/ ValidateMessage
  \/ ValidateRequest
  \/ ValidateNotification
  \/ ValidateCancelParams

SpecConsume == InitConsume /\ [][NextConsume]_vars

----------------------------------------------------------------------------
(* Numbers and whole inputs: parse_single on every text of a few chars of   *)
(* the number grammar, and on some texts of the other rules                 *)

MaxChars == 4

\* '-', '.', ' ', 'e', '+' and the digits 0, 1, 2
NumberChars == {CH_MINUS, CH_DOT, CH_SPACE, 101, CH_PLUS, CH_0, 49, 50}

NumberTexts == UNION {[1..n -> NumberChars] : n \in 0..MaxChars}

TEXT_minus_in_array == <<CH_LBRACKET, CH_MINUS, CH_RBRACKET>>      \* [-]
TEXT_1_x   == <<49, CH_SPACE, 120>>                                \* 1 x
TEXT_nullx == TEXT_null \o <<120>>                                 \* nullx
TEXT_array_bracket ==
  <<CH_LBRACKET, CH_RBRACKET, CH_SPACE, CH_RBRACKET>>              \* [] ]
TEXT_0_5   == <<CH_0, CH_DOT, 53>>                                 \* 0.5
TEXT_1_5   == <<49, CH_DOT, 53>>                                   \* 1.5
TEXT_1_25  == <<49, CH_DOT, 50, 53>>                               \* 1.25
TEXT_1_25e2 == <<49, CH_DOT, 50, 53, 101, 50>>                     \* 1.25e2
TEXT_string_escapes ==                                             \* "a\né"
  <<CH_QUOTE, 97, CH_BACKSLASH, 110, CH_BACKSLASH, 117, 48, 48, 101, 57,
    CH_QUOTE>>
TEXT_string_open == <<CH_QUOTE, 97, 98>>                           \* "ab
TEXT_escape_open == <<CH_QUOTE, CH_BACKSLASH>>                     \* "\
TEXT_hex_open == <<CH_QUOTE, CH_BACKSLASH, 117, 49, 50>>           \* "\u12
TEXT_object_nested ==                                              \* {"a":[1, -2],"b":{}}
  <<CH_LBRACE, CH_QUOTE, 97, CH_QUOTE, CH_COLON, CH_LBRACKET, 49, CH_COMMA,
    CH_SPACE, CH_MINUS, 50, CH_RBRACKET, CH_COMMA, CH_QUOTE, 98, CH_QUOTE,
    CH_COLON, CH_LBRACE, CH_RBRACE, CH_RBRACE>>
TEXT_object_open == <<CH_LBRACE, CH_QUOTE, 97, CH_QUOTE, CH_COLON>> \* {"a":
TEXT_array_open == <<CH_LBRACKET, 49, CH_COMMA>>                   \* [1,
TEXT_true_false ==                                                 \* [true , false,null]
  <<CH_LBRACKET>> \o TEXT_true \o <<CH_SPACE, CH_COMMA, CH_SPACE>>
  \o TEXT_false \o <<CH_COMMA>> \o TEXT_null \o <<CH_RBRACKET>>

OtherTexts ==
  {TEXT_minus_in_array, TEXT_1_x, TEXT_nullx, TEXT_array_bracket,
   TEXT_0_5, TEXT_1_5, TEXT_1_25, TEXT_1_25e2, TEXT_string_escapes, TEXT_string_open, TEXT_escape_open,
   TEXT_hex_open, TEXT_object_nested, TEXT_object_open, TEXT_array_open,
   TEXT_true_false, TEXT_1_2_trailing, TEXT_a_1_trailing}

InitNumber ==
  /\ m_source \in NumberTexts \cup OtherTexts
  /\ m_index = 0
  /\ m_assoc_array = <<>>
  /\ input = value_default
  /\ call = NoCall
  /\ moved_from_keeps = FALSE

SpecNumber == InitNumber /\ [][NextParse]_vars

----------------------------------------------------------------------------
(* The cursor: parse_single on the texts of all the rules                   *)

InitCursor ==
  /\ m_source \in NumberTexts \cup OtherTexts \cup ParseInputs
  /\ m_index = 0
  /\ m_assoc_array = <<>>
  /\ input = value_default
  /\ call = NoCall
  /\ moved_from_keeps = FALSE

SpecCursor == InitCursor /\ [][NextParse]_vars

----------------------------------------------------------------------------
(* Claims                                                                   *)

\* the value stored under key in assoc
StoredUnder(assoc, key) == expect(assoc, key)

\* C1: remove(k) and remove_expect(k) return exactly the value that was
\* stored under k when k is present, wherever k sits among the pairs, and
\* remove returns empty when k is absent; afterwards the object has no k.
C1_RemoveReturnsStored ==
  call.op \in {"remove", "remove_expect"} =>
    /\ has_key(call.before, call.key) =>
         call.ret = Some(StoredUnder(call.before, call.key))
    /\ ~has_key(call.before, call.key) => call.ret = nullopt
    /\ ~has_key(m_assoc_array, call.key)

\* a number within the conversion tolerance above its floor
NearIntegral(val) ==
  is_number(val) /\ minus_floor(val.v) <= INT_CONVERSION_TOLERANCE

\* an object that holds what a request must hold, in any order and among any
\* other keys
WellFormedRequest(val) ==
  /\ is_object(val)
  /\ has_key(val.v, STR_jsonrpc)
  /\ StoredUnder(val.v, STR_jsonrpc) = value_string(STR_2_0)
  /\ has_key(val.v, STR_id)
  /\ \/ is_string(StoredUnder(val.v, STR_id))
     \/ NearIntegral(StoredUnder(val.v, STR_id))
  /\ has_key(val.v, STR_method)
  /\ is_string(StoredUnder(val.v, STR_method))
  /\ has_key(val.v, STR_params) =>
       \/ is_array(StoredUnder(val.v, STR_params))
       \/ is_object(StoredUnder(val.v, STR_params))

\* the message a well-formed request object describes
RequestOf(val) ==
  [id     |-> IF is_string(StoredUnder(val.v, STR_id))
              THEN id_string(StoredUnder(val.v, STR_id).v)
              ELSE id_i64(floor(StoredUnder(val.v, STR_id).v).whole),
   method |-> StoredUnder(val.v, STR_method).v,
   params |-> IF has_key(val.v, STR_params)
              THEN Some(StoredUnder(val.v, STR_params))
              ELSE nullopt]

\* C2: RequestMessage.validate succeeds on every well-formed request object,
\* in any key order and with any additional keys, and the message returned
\* holds the id, method and params the object held.
C2_WellFormedRequestValidates ==
  (call.op = "RequestMessage::validate" /\ WellFormedRequest(call.input)) =>
    call.ret = Some(RequestOf(call.input))

\* C3: RequestMessage.validate returns empty for every input that is not a
\* well-formed request object: a non-object, or an object whose "jsonrpc",
\* "id", "method" or "params" is missing or of the wrong kind.
C3_MalformedRequestRejected ==
  (/\ call.op \in {"RequestMessage::validate", "main RequestMessage::validate"}
   /\ ~WellFormedRequest(call.input)) =>
    call.ret = nullopt

\* C4: set(k, v2) on an object that already has k returns false and leaves
\* the object as it was, the first value still under k; set on an absent key
\* returns true and appends the pair at the end.
C4_SetRejectsDuplicate ==
  call.op = "set" =>
    IF has_key(call.before, call.key)
    THEN /\ call.ret = FALSE
         /\ m_assoc_array = call.before
         /\ StoredUnder(m_assoc_array, call.key)
              = StoredUnder(call.before, call.key)
    ELSE /\ call.ret = TRUE
         /\ m_assoc_array = call.before \o <<Pair(call.key, call.val)>>

\* a second set of a key, with another value than the one stored
C4_Witness ==
  /\ call.op = "set"
  /\ has_key(call.before, call.key)
  /\ StoredUnder(call.before, call.key) # call.val
  /\ call.ret = FALSE

\* C5: in every state reached from the empty object by set, remove and
\* remove_expect, no two pairs of the object share a key.
C5_NoDuplicateKeys ==
  \A i, j \in 1..Len(m_assoc_array) :
    i # j => m_assoc_array[i].first # m_assoc_array[j].first

\* a key was removed from the middle of an object that keeps two pairs
C5_Witness ==
  /\ call.op \in {"remove", "remove_expect"}
  /\ Len(call.before) = 3
  /\ call.before[2].first = call.key
  /\ Len(m_assoc_array) = 2

\* the predicates that are true of a value
TruePredicates(val) ==
  {k \in {"null", "bool", "f64", "string", "array", "object"} :
     CASE k = "null"   -> is_null(val)
       [] k = "bool"   -> is_bool(val)
       [] k = "f64"    -> is_number(val)
       [] k = "string" -> is_string(val)
       [] k = "array"  -> is_array(val)
       [] k = "object" -> is_object(val)}

\* C6: of a value constructed from kind K, by a constructor or by the parser,
\* the predicate of K is true and the other five are false; a
\* default-constructed value is not an object.
C6_KindPredicates ==
  call.op \in {"value", "parse_single"} =>
    IF call.from = "default"
    THEN ~is_object(input)
    ELSE TruePredicates(input) = {call.from}

\* C7: try_integer(tolerance) returns empty for a non-number and for a number
\* more than tolerance above its floor; for a number x at most tolerance above
\* its floor, negative x included, it returns floor(x).
C7_TryIntegerIsFloor ==
  call.op = "try_integer" =>
    IF is_number(input) /\ minus_floor(input.v) <= call.tolerance
    THEN call.ret = Some(floor(input.v).whole)
    ELSE call.ret = nullopt

\* C8: serializing a value built from the six kinds and parsing the text
\* succeeds and yields the value: same kind, same content, same order.
C8_RoundTrip ==
  /\ call.op = "format" => ~call.thrown
  /\ call.op = "parse_single" => call.ret = Some(input)

\* the last char before position p that is not whitespace, 0 if there is none
PrevNonWs(src, p) ==
  LET before == {q \in 1..(p - 1) : ~is_whitespace(src[q])} IN
  IF before = {} THEN 0
  ELSE src[CHOOSE q \in before : \A r \in before : r <= q]

\* the first char after position p that is not whitespace, 0 if there is none
NextNonWs(src, p) ==
  LET after == {q \in (p + 1)..Len(src) : ~is_whitespace(src[q])} IN
  IF after = {} THEN 0
  ELSE src[CHOOSE q \in after : \A r \in after : q <= r]

WithoutChar(src, p) == SubSeq(src, 1, p - 1) \o SubSeq(src, p + 1, Len(src))

\* the opening brackets of src[1..n] less its closing brackets
Depth(src, n) ==
  Cardinality({q \in 1..n : src[q] \in {CH_LBRACKET, CH_LBRACE}})
  - Cardinality({q \in 1..n : src[q] \in {CH_RBRACKET, CH_RBRACE}})

\* a separator with an element before it and the closing bracket after it
TrailingSeparator(src, p) ==
  /\ src[p] = CH_COMMA
  /\ NextNonWs(src, p) \in {CH_RBRACKET, CH_RBRACE}
  /\ PrevNonWs(src, p) \notin {0, CH_COMMA, CH_LBRACKET, CH_LBRACE}

\* a separator with no element before it
BareSeparator(src, p) ==
  /\ src[p] = CH_COMMA
  /\ PrevNonWs(src, p) \in {0, CH_COMMA, CH_LBRACKET, CH_LBRACE}

Number1 == value_f64(F64(1, 0))

Number2 == value_f64(F64(2, 0))

\* C9: one trailing separator before the closing bracket of an array or an
\* object is accepted and changes nothing of the result; a separator with no
\* element before it, and a bracket left open at the end of the input, make
\* the parse fail.
C9_TrailingSeparator ==
  call.op = "parse_single" =>
    /\ \A p \in 1..Len(m_source) :
         TrailingSeparator(m_source, p) =>
           call.ret = parse_single(WithoutChar(m_source, p)).ret
    /\ call.ret.has_value =>
         /\ \A p \in 1..m_index : ~BareSeparator(m_source, p)
         /\ \A n \in 0..m_index : Depth(m_source, n) >= 0
         /\ Depth(m_source, m_index) = 0
    /\ m_source = TEXT_1_2_trailing =>
         call.ret = Some(value_array(<<Number1, Number2>>))
    /\ m_source = TEXT_a_1_trailing =>
         call.ret = Some(value_object(<<Pair(<<97>>, Number1)>>))
    /\ m_source = <<CH_LBRACKET, CH_RBRACKET>> => call.ret = Some(value_array(<<>>))
    /\ m_source = <<CH_LBRACE, CH_RBRACE>> => call.ret = Some(value_object(<<>>))
    /\ m_source \in {TEXT_lone_comma, TEXT_1_2_doubled} => call.ret = nullopt

\* [1,2,] was parsed to the array of 1 and 2
C9_Witness ==
  /\ call.op = "parse_single"
  /\ m_source = TEXT_1_2_trailing
  /\ call.ret = Some(value_array(<<Number1, Number2>>))
  /\ m_index = Len(m_source)

\* C10, as claimed: identify returns true exactly when the value is an object
\* that has both an "id" key and a "method" key, and leaves the value as it
\* was.
C10_IdentifyNeedsIdAndMethod ==
  call.op = "RequestMessage::identify" =>
    /\ call.ret = (/\ is_object(call.input)
                   /\ has_key(call.input.v, STR_id)
                   /\ has_key(call.input.v, STR_method))
    /\ input = call.input

\* C10, amended: RequestMessage::identify of rpc.cpp returns true exactly
\* when the value is an object that has an "id" key, whether or not it has a
\* "method" key; the definition in main.cpp returns true exactly when the
\* object has both keys; both leave the value as it was.
C10_IdentifyLooksAtId ==
  /\ call.op = "RequestMessage::identify" =>
       /\ call.ret = (is_object(call.input) /\ has_key(call.input.v, STR_id))
       /\ input = call.input
  /\ call.op = "main RequestMessage::identify" =>
       /\ call.ret = (/\ is_object(call.input)
                      /\ has_key(call.input.v, STR_id)
                      /\ has_key(call.input.v, STR_method))
       /\ input = call.input

\* an object with "id" and without "method" was identified as a request
C10_Witness ==
  /\ call.op = "RequestMessage::identify"
  /\ is_object(call.input)
  /\ has_key(call.input.v, STR_id)
  /\ ~has_key(call.input.v, STR_method)
  /\ call.ret = TRUE

\* the json::value a response id is dumped as
DumpedId(id) ==
  CASE id.kind = "string" -> value_string(id.v)
    [] id.kind = "null"   -> value_null
    [] id.kind = "i64"    -> value_f64(F64(id.v, 0))

\* C11: a message built by ok or err has exactly one of result and error, and
\* its dump into an empty object holds "jsonrpc" with the string "2.0", then
\* "id" with the id, then "result" for ok and "error" for err, and no other
\* key.
C11_DumpHasOneOfResultError ==
  /\ call.op \in {"ResponseMessage::ok", "ResponseMessage::err"} =>
       call.message.result.has_value # call.message.error.has_value
  /\ call.op = "ResponseMessage::dump" =>
       /\ Len(m_assoc_array) = 3
       /\ m_assoc_array[1] = Pair(STR_jsonrpc, value_string(STR_2_0))
       /\ m_assoc_array[2] = Pair(STR_id, DumpedId(call.message.id))
       /\ m_assoc_array[3].first =
            (IF call.message.result.has_value THEN STR_result ELSE STR_error)
       /\ call.message.result.has_value =>
            m_assoc_array[3].second = call.message.result.value

\* the id an object holds under "id", as the id of a message
IdOf(val) ==
  IF is_string(StoredUnder(val.v, STR_id))
  THEN id_string(StoredUnder(val.v, STR_id).v)
  ELSE id_i64(floor(StoredUnder(val.v, STR_id).v).whole)

\* C12: CancelParams.validate succeeds exactly on objects whose "id" is a
\* string or a near-integral number, with the id the object held; it returns
\* empty for a non-object, a missing "id" and an "id" of any other kind,
\* whatever other keys the object holds and in whatever order.
C12_CancelParamsValidate ==
  call.op = "CancelParams::validate" =>
    IF /\ is_object(call.input)
       /\ has_key(call.input.v, STR_id)
       /\ \/ is_string(StoredUnder(call.input.v, STR_id))
          \/ NearIntegral(StoredUnder(call.input.v, STR_id))
    THEN call.ret = Some([id |-> IdOf(call.input)])
    ELSE call.ret = nullopt

\* the keys a validator recognises
Recognised(op) ==
  CASE op = "RequestMessage::validate" ->
         {STR_jsonrpc, STR_id, STR_method, STR_params}
    [] op = "NotificationMessage::validate" ->
         {STR_jsonrpc, STR_method, STR_params}
    [] op = "CancelParams::validate" -> {STR_id}
    [] op = "Message::validate" -> {STR_jsonrpc}

\* the pairs of assoc whose key is not in keys, in their order
Without(assoc, keys) == SelectSeq(assoc, LAMBDA p : p.first \notin keys)

\* C13: a validate call removes only keys its message type recognises, and
\* never "id" for a notification; every other pair of the input is still
\* there afterwards with its value and in its order, on success and on
\* failure; an input that is not an object is left as it was.
C13_OnlyRecognisedKeysRemoved ==
  call.op \in {"RequestMessage::validate", "NotificationMessage::validate",
               "CancelParams::validate"} =>
    IF is_object(call.input)
    THEN /\ is_object(input)
         /\ Without(input.v, Recognised(call.op))
              = Without(call.input.v, Recognised(call.op))
         /\ input.v = SelectSeq(call.input.v,
                                LAMBDA p : has_key(input.v, p.first))
    ELSE input = call.input

\* a notification with an "id" and a key of its own was validated: both are
\* still in the object, and the recognised keys are gone
C13_Witness ==
  /\ call.op = "NotificationMessage::validate"
  /\ call.ok
  /\ Len(call.input.v) >= 3
  /\ has_key(call.input.v, STR_id)
  /\ has_key(input.v, STR_id)
  /\ ~has_key(input.v, STR_method)
  /\ ~has_key(input.v, STR_jsonrpc)

\* the validators that start with Message::validate
MessageValidators ==
  {"Message::validate", "RequestMessage::validate",
   "NotificationMessage::validate"}

\* C18: once Message.validate, RequestMessage.validate or
\* NotificationMessage.validate has been called on a value, whether it
\* succeeded or failed, every later call of one of the three on that value
\* returns empty.
C18_ValidationIsSingleShot ==
  (/\ call.op \in MessageValidators
   /\ \E i \in 1..Len(call.earlier) : call.earlier[i].op \in MessageValidators)
    => ~call.ok

\* a value that validated as a request is handed to a validator again
C18_Witness ==
  /\ call.op \in MessageValidators
  /\ Len(call.earlier) >= 1
  /\ call.earlier[1] = [op |-> "RequestMessage::validate", ok |-> TRUE]
  /\ ~call.ok

\* the index of the first char of src that is neither whitespace nor '['
RECURSIVE LeadIn(_, _)
LeadIn(src, idx) ==
  IF /\ ~is_eof(src, idx)
     /\ \/ is_whitespace(unchecked_char(src, idx))
        \/ unchecked_char(src, idx) = CH_LBRACKET
  THEN LeadIn(src, idx + 1)
  ELSE idx

\* a '-' where a value starts, with no digit behind it
BareMinus(src) ==
  LET idx == LeadIn(src, 0) IN
  /\ current_char_is(src, idx, CH_MINUS)
  /\ is_eof(src, idx + 1) \/ ~isdigit(unchecked_char(src, idx + 1))

\* C14: a leading '-' that is followed by the end of the input or by a char
\* that is no digit is a parse failure, never a number.
C14_BareMinusFails ==
  (call.op = "parse_single" /\ BareMinus(m_source)) => call.ret = nullopt

\* a non-empty run of digits
AllDigits(text) == text # <<>> /\ \A p \in 1..Len(text) : isdigit(text[p])

\* an integer part: a single 0, or a run of digits that does not start with 0
IntegerDigits(text) == AllDigits(text) /\ (text[1] = CH_0 => Len(text) = 1)

\* the number a run of digits writes
Decimal(text) == parse_digits(text, 0).value

IsNegative(text) == text # <<>> /\ text[1] = CH_MINUS

Unsigned(text) == IF IsNegative(text) THEN Tail(text) ELSE text

Signed(text, x) == IF IsNegative(text) THEN negated(x) ELSE x

\* the positions of text that hold one of chars
PositionsOf(text, chars) == {p \in 1..Len(text) : text[p] \in chars}

\* the one element of a set of one element
TheOne(positions) == CHOOSE p \in positions : TRUE

\* text is [-] integer part '.' fraction digits, and nothing else
FractionText(text) ==
  LET u    == Unsigned(text)
      dots == PositionsOf(u, {CH_DOT})
  IN  /\ Cardinality(dots) = 1
      /\ IntegerDigits(SubSeq(u, 1, TheOne(dots) - 1))
      /\ AllDigits(SubSeq(u, TheOne(dots) + 1, Len(u)))

\* sign * (I + F / 10^k) of a FractionText
FractionValue(text) ==
  LET u   == Unsigned(text)
      dot == TheOne(PositionsOf(u, {CH_DOT}))
      k   == Len(u) - dot
  IN  Signed(text, F64(Decimal(SubSeq(u, 1, dot - 1)),
                       Decimal(SubSeq(u, dot + 1, Len(u))) * (NANO \div 10 ^ k)))

\* C15: a number text with integer part I and a fraction of k digits of
\* decimal value F, and no exponent, parses to sign * (I + F / 10^k): "0.5" to
\* one half, "1.25" to one and a quarter.
C15_FractionValue ==
  (call.op = "parse_single" /\ FractionText(m_source)) =>
    call.ret = Some(value_f64(FractionValue(m_source)))

\* text is [-] integer part, then 'e' or 'E', an optional sign and digits
ExponentText(text) ==
  LET u    == Unsigned(text)
      es   == PositionsOf(u, {101, 69})
      rest == SubSeq(u, TheOne(es) + 1, Len(u))
  IN  /\ Cardinality(es) = 1
      /\ IntegerDigits(SubSeq(u, 1, TheOne(es) - 1))
      /\ AllDigits(IF rest # <<>> /\ rest[1] \in {CH_PLUS, CH_MINUS}
                   THEN Tail(rest) ELSE rest)

\* sign * mantissa^(s * E) of an ExponentText
ExponentValue(text) ==
  LET u    == Unsigned(text)
      e    == TheOne(PositionsOf(u, {101, 69}))
      rest == SubSeq(u, e + 1, Len(u))
      E    == Decimal(IF rest[1] \in {CH_PLUS, CH_MINUS} THEN Tail(rest) ELSE rest)
  IN  Signed(text, pow(F64(Decimal(SubSeq(u, 1, e - 1)), 0),
                       IF rest[1] = CH_MINUS THEN -E ELSE E))

\* C16: a number text with an exponent of sign s and digits E parses to
\* sign * mantissa^(s * E), the power being -E after '-' and +E after '+' or
\* no sign; a text with no exponent part parses to sign * mantissa^1.
C16_ExponentValue ==
  call.op = "parse_single" =>
    /\ ExponentText(m_source) =>
         call.ret = Some(value_f64(ExponentValue(m_source)))
    /\ IntegerDigits(Unsigned(m_source)) =>
         call.ret = Some(value_f64(Signed(m_source,
                                          F64(Decimal(Unsigned(m_source)), 0))))

\* C19: parse_single returns a value only when the whole input is one value
\* with whitespace around it; when a char that is no whitespace is left
\* behind the first value, the result is empty.
C19_WholeInputConsumed ==
  (call.op = "parse_single" /\ call.ret.has_value) =>
    m_index = Len(m_source)

\* a code unit the serializer writes as a \u escape: not printable, and
\* without a short escape
NeedsHexEscape(c) == ~iswprint(c) /\ c \notin {8, 12, CH_LF, CH_CR, CH_TAB}

\* C17: a code unit that is not printable and has no short escape is written
\* as a backslash, 'u' and exactly four hexadecimal digits, from which
\* parse_four_hex reads the code unit back.
C17_HexEscape ==
  (/\ call.op = "format"
   /\ is_string(input)
   /\ Len(input.v) = 1
   /\ NeedsHexEscape(input.v[1])) =>
    /\ Len(m_source) = 8
    /\ SubSeq(m_source, 1, 3) = <<CH_QUOTE, CH_BACKSLASH, 117>>
    /\ \A p \in 4..7 : isxdigit(m_source[p])
    /\ m_source[8] = CH_QUOTE
    /\ parse_four_hex(SubSeq(m_source, 4, 7), 0).ret = Some(input.v[1])

\* the cursor a parse operator leaves is at or behind the one it started at,
\* and within the input
Within(idx, from) == from <= idx /\ idx <= Len(m_source)

\* C20: the cursor never decreases and never exceeds the input length, a
\* successful parse_value consumes at least one char, and every iteration of
\* the whitespace, digit, string, array and object loops advances the cursor,
\* from whatever index of the input it starts.
C20_CursorAdvances ==
  call.op = "parse_single" =>
    /\ Within(m_index, 0)
    /\ call.ret.has_value => m_index >= 1
    /\ \A i \in 0..Len(m_source) :
         /\ Within(skip_whitespace(m_source, i), i)
         /\ Within(parse_digits(m_source, i).idx, i)
         /\ Within(parse_number(m_source, i).idx, i)
         /\ Within(parse_four_hex(m_source, i).idx, i)
         /\ Within(parse_escape(m_source, i).idx, i)
         /\ Within(parse_string(m_source, i).idx, i)
         /\ Within(parse_array(m_source, i).idx, i)
         /\ Within(parse_object(m_source, i).idx, i)
         /\ Within(parse_value(m_source, i).idx, i)
         /\ parse_value(m_source, i).ret.has_value =>
              parse_value(m_source, i).idx > i
         /\ parse_escape(m_source, i).ret.has_value =>
              parse_escape(m_source, i).idx > i
         /\ parse_string(m_source, i).ret.has_value =>
              parse_string(m_source, i).idx > i
         /\ (~is_eof(m_source, i) /\ is_whitespace(unchecked_char(m_source, i)))
              => skip_whitespace(m_source, i) > i
         /\ (~is_eof(m_source, i) /\ isdigit(unchecked_char(m_source, i)))
              => parse_digits(m_source, i).idx > i

\* an array left open behind a separator was parsed to the end of the input,
\* and the result is empty
C20_Witness ==
  /\ call.op = "parse_single"
  /\ m_source = TEXT_array_open
  /\ call.ret = nullopt
  /\ m_index = Len(m_source)

====
